---- MODULE Spec2Model ----
(***************************************************************************)
(* A model of the gamma_ray linear-algebra containers:                     *)
(*   algebra/linear/dynamic.rs  DVector<T>, DMatrix<T> (runtime sized)     *)
(*   algebra/linear/mat.rs      Matrix<T, M, N>        (compile-time sized)*)
(*                                                                         *)
(* The library is a set of constructors, conversions and operators with no *)
(* background state.  The state of the model is the value a caller holds   *)
(* (cur) and the record of the last call made on it (call): its name, its  *)
(* receiver, its argument and its outcome.  An operation that panics       *)
(* (assert_eq!, an index out of bounds, unimplemented!) is an outcome, not *)
(* a disabled action.  T is instantiated at the integers: T::default() is  *)
(* 0 and T::one() is 1.  Indices are 0-based as in the source and shifted  *)
(* by one where a TLA+ sequence is read.                                   *)
(***************************************************************************)
EXTENDS Integers, Sequences, FiniteSets, TLC

\* Bounds of the model.
MaxDim == 2      \* rows and columns of the dynamic containers that are enumerated
NumFills == 2    \* entry patterns per shape of a dynamic container
MaxVal == 1      \* entries of an enumerated fixed matrix are 0..MaxVal
MaxAbove == 1    \* fixed dimensions above the largest closed-form determinant

\* The largest dimension determinant() has a closed form for (mat.rs, match arm 3).
MaxClosedForm == 3

VARIABLES cur, call

vars == <<cur, call>>

(***************************************************************************)
(* Values.  Every value is a record with a kind, so that values of         *)
(* different Rust types are told apart before they are compared.           *)
(***************************************************************************)
None == [kind |-> "None"]

\* struct DVector<T> { data: Vec<T>, len: usize }
DVector(data, len) == [kind |-> "DVector", data |-> data, len |-> len]

\* struct DMatrix<T> { data: Vec<Vec<T>>, size: (usize, usize) }
DMatrix(data, size) == [kind |-> "DMatrix", data |-> data, size |-> size]

\* struct Matrix<T, M, N> { data: [[T; M]; N] }: N arrays of M entries
Matrix(M, N, data) == [kind |-> "Matrix", M |-> M, N |-> N, data |-> data]

\* arguments that are not containers
ScalarArg(v) == [kind |-> "T", v |-> v]
VecArg(data) == [kind |-> "Vec", data |-> data]
StrArg(chars) == [kind |-> "str", chars |-> chars]
SizeArg(size) == [kind |-> "size", size |-> size]
BoundsArg(min, max) == [kind |-> "bounds", min |-> min, max |-> max]

\* Outcomes of a call.  ret is the value returned, post the receiver of an
\* assigning operator after the call (also after a panic part-way through).
Returned(v) == [status |-> "ok", ret |-> v, post |-> None]
Mutated(v) == [status |-> "ok", ret |-> None, post |-> v]
Panicked(why, v) == [status |-> why, ret |-> None, post |-> v]

\* the reasons a call panics
AssertFailed == "assert_eq failed"
IndexOutOfBounds == "index out of bounds"
Unimplemented == "not implemented"

Failed(out) == out.status # "ok"

(***************************************************************************)
(* Loops and indexing.                                                     *)
(***************************************************************************)
\* for x in 0..a { for y in 0..b { .. } }: the pairs <<x, y>> in loop order
Pairs(a, b) == [i \in 1..(a * b) |-> <<(i - 1) \div b, (i - 1) % b>>]

\* for x in 0..a { for y in 0..b { for z in 0..c { .. } } }
Triples(a, b, c) ==
  [i \in 1..(a * b * c) |->
     <<(i - 1) \div (b * c), ((i - 1) \div c) % b, (i - 1) % c>>]

\* data[i][j] is within bounds (Vec and array indexing panics otherwise)
InBounds(data, i, j) == (i + 1) \in DOMAIN data /\ (j + 1) \in DOMAIN data[i + 1]

At(data, i, j) == data[i + 1][j + 1]

Put(data, i, j, v) == [data EXCEPT ![i + 1] = [@ EXCEPT ![j + 1] = v]]

(***************************************************************************)
(* DVector<T> and DMatrix<T>: dynamic.rs                                   *)
(***************************************************************************)
\* DVector::new
DVector_new(data) == Returned(DVector(data, Len(data)))

\* DMatrix::new: size.1 is the number of columns, size.0 the length of the
\* first column (0 without columns); the other columns are not looked at.
DMatrix_new(data) ==
  LET size1 == Len(data)
      size0 == IF Len(data) # 0 THEN Len(data[1]) ELSE 0
  IN Returned(DMatrix(data, <<size0, size1>>))

\* vec![vec![T::default(); size.0]; size.1]
DefaultData(size) == [n \in 1..size[2] |-> [m \in 1..size[1] |-> 0]]

\* DMatrix::default_with_size
DMatrix_default_with_size(size) == Returned(DMatrix(DefaultData(size), size))

\* The body shared by add and sub (sign 1 and -1): mat.data[n][m] += rhs.data[n][m]
\* for the pairs <<m, n>> of idx from position i on; stops at the first index
\* that is out of bounds, with the entries written so far kept.
RECURSIVE AddLoop(_, _, _, _, _)
AddLoop(data, rhsData, sign, idx, i) ==
  IF i > Len(idx) THEN [ok |-> TRUE, data |-> data]
  ELSE LET m == idx[i][1]
           n == idx[i][2]
       IN IF InBounds(rhsData, n, m) /\ InBounds(data, n, m)
          THEN AddLoop(Put(data, n, m, At(data, n, m) + sign * At(rhsData, n, m)),
                       rhsData, sign, idx, i + 1)
          ELSE [ok |-> FALSE, data |-> data]

\* impl Add for DMatrix
DMatrix_add(self, rhs) ==
  IF self.size # rhs.size THEN Panicked(AssertFailed, None)
  ELSE LET r == AddLoop(self.data, rhs.data, 1, Pairs(self.size[1], self.size[2]), 1)
       IN IF r.ok THEN Returned(DMatrix(r.data, self.size))
          ELSE Panicked(IndexOutOfBounds, None)

\* impl AddAssign for DMatrix
DMatrix_add_assign(self, rhs) ==
  IF self.size # rhs.size THEN Panicked(AssertFailed, self)
  ELSE LET r == AddLoop(self.data, rhs.data, 1, Pairs(self.size[1], self.size[2]), 1)
       IN IF r.ok THEN Mutated(DMatrix(r.data, self.size))
          ELSE Panicked(IndexOutOfBounds, DMatrix(r.data, self.size))

\* impl Sub for DMatrix
DMatrix_sub(self, rhs) ==
  IF self.size # rhs.size THEN Panicked(AssertFailed, None)
  ELSE LET r == AddLoop(self.data, rhs.data, -1, Pairs(self.size[1], self.size[2]), 1)
       IN IF r.ok THEN Returned(DMatrix(r.data, self.size))
          ELSE Panicked(IndexOutOfBounds, None)

\* impl SubAssign for DMatrix
DMatrix_sub_assign(self, rhs) ==
  IF self.size # rhs.size THEN Panicked(AssertFailed, self)
  ELSE LET r == AddLoop(self.data, rhs.data, -1, Pairs(self.size[1], self.size[2]), 1)
       IN IF r.ok THEN Mutated(DMatrix(r.data, self.size))
          ELSE Panicked(IndexOutOfBounds, DMatrix(r.data, self.size))

\* The accumulation of mul: mat.data[p][m] += self.data[n][m] * rhs.data[p][n]
\* for the triples <<m, p, n>> of idx from position i on.
RECURSIVE MulLoop(_, _, _, _, _)
MulLoop(data, selfData, rhsData, idx, i) ==
  IF i > Len(idx) THEN [ok |-> TRUE, data |-> data]
  ELSE LET m == idx[i][1]
           p == idx[i][2]
           n == idx[i][3]
       IN IF InBounds(selfData, n, m) /\ InBounds(rhsData, p, n) /\ InBounds(data, p, m)
          THEN MulLoop(Put(data, p, m,
                           At(data, p, m) + At(selfData, n, m) * At(rhsData, p, n)),
                       selfData, rhsData, idx, i + 1)
          ELSE [ok |-> FALSE, data |-> data]

\* impl Mul for DMatrix: asserts self.size.0 == rhs.size.1, and the result is
\* default_with_size((rhs.size.1, self.size.0)).
DMatrix_mul(self, rhs) ==
  IF self.size[1] # rhs.size[2] THEN Panicked(AssertFailed, None)
  ELSE LET size == <<rhs.size[2], self.size[1]>>
           r == MulLoop(DefaultData(size), self.data, rhs.data,
                        Triples(self.size[1], rhs.size[2], self.size[2]), 1)
       IN IF r.ok THEN Returned(DMatrix(r.data, size))
          ELSE Panicked(IndexOutOfBounds, None)

\* impl From<[[T; M]; N]> for DMatrix: rhs is an array of N arrays of M entries,
\* so rhs[n][m] and mat.data[n][m] are always within bounds.
DMatrix_from_array(M, N, rhs) ==
  Returned(DMatrix([n \in 1..N |-> [m \in 1..M |-> rhs[n][m]]], <<M, N>>))

\* impl From<DVector<T>> for DMatrix<T>
DMatrix_from_DVector(rhs) == Returned(DMatrix(<<rhs.data>>, <<rhs.len, 0>>))

\* impl From<DMatrix<T>> for DVector<T>
DVector_from_DMatrix(rhs) ==
  IF rhs.size[2] # 1 THEN Panicked(AssertFailed, None)
  ELSE IF Len(rhs.data) = 0 THEN Panicked(IndexOutOfBounds, None)
  ELSE Returned(DVector(rhs.data[1], rhs.size[1]))

(***************************************************************************)
(* Text construction.  A &str or String is a sequence of characters.       *)
(***************************************************************************)
Digits == <<"0", "1", "2", "3", "4", "5", "6", "7", "8", "9">>

IsDigit(ch) == \E d \in 1..10 : Digits[d] = ch

DigitVal(ch) == (CHOOSE d \in 1..10 : Digits[d] = ch) - 1

\* str::split(sep): the pieces between the separators; a text without a
\* separator is one piece, also when it is empty.
RECURSIVE Split(_, _)
Split(s, sep) ==
  IF \A i \in 1..Len(s) : s[i] # sep THEN <<s>>
  ELSE LET k == CHOOSE i \in 1..Len(s) : s[i] = sep /\ \A j \in 1..(i - 1) : s[j] # sep
       IN <<SubSeq(s, 1, k - 1)>> \o Split(SubSeq(s, k + 1, Len(s)), sep)

\* the value of a sequence of decimal digits
RECURSIVE DecVal(_)
DecVal(s) ==
  IF Len(s) = 0 THEN 0
  ELSE 10 * DecVal(SubSeq(s, 1, Len(s) - 1)) + DigitVal(s[Len(s)])

\* val.parse::<T>(): Ok(v) for an optional minus sign and at least one digit,
\* Err otherwise (the empty token, a lone sign, a letter).
ParseT(val) ==
  LET neg == Len(val) > 0 /\ val[1] = "-"
      body == IF neg THEN Tail(val) ELSE val
  IN IF Len(body) > 0 /\ \A i \in 1..Len(body) : IsDigit(body[i])
     THEN [ok |-> TRUE, v |-> IF neg THEN 0 - DecVal(body) ELSE DecVal(body)]
     ELSE [ok |-> FALSE, v |-> 0]

\* val.parse::<T>().unwrap_or_else(|t| <T>::default())
ParseOrDefault(val) == IF ParseT(val).ok THEN ParseT(val).v ELSE 0

\* str.split(" ").map(parse or default).collect::<Vec<T>>()
ParseColumn(str) ==
  LET toks == Split(str, " ") IN [i \in 1..Len(toks) |-> ParseOrDefault(toks[i])]

\* impl From<&str> for DVector
DVector_from_str(rhs) ==
  LET data == ParseColumn(rhs) IN Returned(DVector(data, Len(data)))

\* impl From<String> for DVector
DVector_from_String(rhs) ==
  LET data == ParseColumn(rhs) IN Returned(DVector(data, Len(data)))

\* DMatrix_from_str with the two components of size exchanged
DMatrix_from_str_size_swapped(rhs) ==
  LET cols_str == Split(rhs, ";")
      cols_t == [c \in 1..Len(cols_str) |-> ParseColumn(cols_str[c])]
  IN Returned(DMatrix(cols_t, <<Len(cols_t), Len(cols_t[1])>>))

\* impl From<&str> for DMatrix
DMatrix_from_str(rhs) ==
  LET cols_str == Split(rhs, ";")
      cols_t == [c \in 1..Len(cols_str) |-> ParseColumn(cols_str[c])]
  IN Returned(DMatrix(cols_t, <<Len(cols_t[1]), Len(cols_t)>>))

\* impl From<String> for DMatrix
DMatrix_from_String(rhs) ==
  LET cols_str == Split(rhs, ";")
      cols_t == [c \in 1..Len(cols_str) |-> ParseColumn(cols_str[c])]
  IN Returned(DMatrix(cols_t, <<Len(cols_t[1]), Len(cols_t)>>))

(***************************************************************************)
(* Matrix<T, M, N>: mat.rs                                                 *)
(***************************************************************************)
\* Matrix::new
Matrix_new(M, N, data) == Returned(Matrix(M, N, data))

\* Matrix::broadcast: [[value; M]; N]
Matrix_broadcast(M, N, value) ==
  Returned(Matrix(M, N, [n \in 1..N |-> [m \in 1..M |-> value]]))

\* determinant with the second minor of the 3x3 arm taken from the wrong entries
determinant_wrong_minor(self) ==
  LET d == self.data IN
  CASE self.M = 0 -> Returned(ScalarArg(1))
    [] self.M = 1 -> Returned(ScalarArg(At(d, 0, 0)))
    [] self.M = 2 ->
         Returned(ScalarArg(At(d, 0, 0) * At(d, 1, 1) - At(d, 1, 0) * At(d, 1, 0)))
    [] self.M = 3 ->
         LET minor_1 == At(d, 1, 1) * At(d, 2, 2) - At(d, 2, 1) * At(d, 1, 2)
             minor_2 == At(d, 1, 0) * At(d, 2, 2) - At(d, 2, 0) * At(d, 1, 1)
             minor_3 == At(d, 1, 0) * At(d, 2, 1) - At(d, 2, 0) * At(d, 1, 1)
         IN Returned(ScalarArg(At(d, 0, 0) * minor_1 - At(d, 0, 1) * minor_2
                               + At(d, 0, 2) * minor_3))
    [] OTHER -> Panicked(Unimplemented, None)

\* determinant with the dimensions above 3 falling through to a value
determinant_falls_through(self) ==
  LET d == self.data IN
  CASE self.M = 0 -> Returned(ScalarArg(1))
    [] self.M = 1 -> Returned(ScalarArg(At(d, 0, 0)))
    [] self.M = 2 ->
         Returned(ScalarArg(At(d, 0, 0) * At(d, 1, 1) - At(d, 1, 0) * At(d, 1, 0)))
    [] self.M = 3 ->
         LET minor_1 == At(d, 1, 1) * At(d, 2, 2) - At(d, 2, 1) * At(d, 1, 2)
             minor_2 == At(d, 1, 0) * At(d, 2, 2) - At(d, 2, 0) * At(d, 1, 2)
             minor_3 == At(d, 1, 0) * At(d, 2, 1) - At(d, 2, 0) * At(d, 1, 1)
         IN Returned(ScalarArg(At(d, 0, 0) * minor_1 - At(d, 0, 1) * minor_2
                               + At(d, 0, 2) * minor_3))
    [] OTHER -> Returned(ScalarArg(0))

\* SquareMatrix::determinant.  self[[i, j]] is self.data[i][j]; every index
\* an arm reads is within bounds for the dimension of that arm.
determinant(self) ==
  LET d == self.data IN
  CASE self.M = 0 -> Returned(ScalarArg(1))
    [] self.M = 1 -> Returned(ScalarArg(At(d, 0, 0)))
    [] self.M = 2 ->
         Returned(ScalarArg(At(d, 0, 0) * At(d, 1, 1) - At(d, 1, 0) * At(d, 1, 0)))
    [] self.M = 3 ->
         LET e11 == At(d, 0, 0)
             e12 == At(d, 0, 1)
             e13 == At(d, 0, 2)
             e21 == At(d, 1, 0)
             e22 == At(d, 1, 1)
             e23 == At(d, 1, 2)
             e31 == At(d, 2, 0)
             e32 == At(d, 2, 1)
             e33 == At(d, 2, 2)
             minor_1 == e22 * e33 - e32 * e23
             minor_2 == e21 * e33 - e31 * e23
             minor_3 == e21 * e32 - e31 * e22
         IN Returned(ScalarArg(e11 * minor_1 - e12 * minor_2 + e13 * minor_3))
    [] OTHER -> Panicked(Unimplemented, None)

\* The body shared by mul_assign and div_assign: self[[m, n]] *= rhs (or /= rhs)
\* for the pairs <<m, n>> of idx from position i on; self[[m, n]] is
\* self.data[m][n] and panics when it is out of bounds.
RECURSIVE ScaleLoop(_, _, _, _, _)
ScaleLoop(data, rhs, divide, idx, i) ==
  IF i > Len(idx) THEN [ok |-> TRUE, data |-> data]
  ELSE LET m == idx[i][1]
           n == idx[i][2]
       IN IF InBounds(data, m, n)
          THEN ScaleLoop(Put(data, m, n,
                             IF divide THEN At(data, m, n) \div rhs
                             ELSE At(data, m, n) * rhs),
                         rhs, divide, idx, i + 1)
          ELSE [ok |-> FALSE, data |-> data]

\* impl MulAssign<T> for Matrix
Matrix_mul_assign(self, rhs) ==
  LET r == ScaleLoop(self.data, rhs, FALSE, Pairs(self.M, self.N), 1)
  IN IF r.ok THEN Mutated(Matrix(self.M, self.N, r.data))
     ELSE Panicked(IndexOutOfBounds, Matrix(self.M, self.N, r.data))

\* impl DivAssign<T> for Matrix (rhs is not zero)
Matrix_div_assign(self, rhs) ==
  LET r == ScaleLoop(self.data, rhs, TRUE, Pairs(self.M, self.N), 1)
  IN IF r.ok THEN Mutated(Matrix(self.M, self.N, r.data))
     ELSE Panicked(IndexOutOfBounds, Matrix(self.M, self.N, r.data))

\* The loop of the matrix product: mat[[p, m]] += self[[n, m]] * rhs[[p, n]]
\* for the triples <<m, p, n>> of idx from position i on; x[[a, b]] is
\* x.data[a][b] and panics when it is out of bounds.
RECURSIVE Matrix_mul_loop(_, _, _, _, _)
Matrix_mul_loop(data, selfData, rhsData, idx, i) ==
  IF i > Len(idx) THEN [ok |-> TRUE, data |-> data]
  ELSE LET m == idx[i][1]
           p == idx[i][2]
           n == idx[i][3]
       IN IF InBounds(data, p, m) /\ InBounds(selfData, n, m) /\ InBounds(rhsData, p, n)
          THEN Matrix_mul_loop(Put(data, p, m,
                                   At(data, p, m) + At(selfData, n, m) * At(rhsData, p, n)),
                               selfData, rhsData, idx, i + 1)
          ELSE [ok |-> FALSE, data |-> data]

\* the loop with the receiver read as self[[m, n]]
RECURSIVE Matrix_mul_loop_self_swapped(_, _, _, _, _)
Matrix_mul_loop_self_swapped(data, selfData, rhsData, idx, i) ==
  IF i > Len(idx) THEN [ok |-> TRUE, data |-> data]
  ELSE LET m == idx[i][1]
           p == idx[i][2]
           n == idx[i][3]
       IN IF InBounds(data, p, m) /\ InBounds(selfData, m, n) /\ InBounds(rhsData, p, n)
          THEN Matrix_mul_loop_self_swapped(
                 Put(data, p, m,
                     At(data, p, m) + At(selfData, m, n) * At(rhsData, p, n)),
                 selfData, rhsData, idx, i + 1)
          ELSE [ok |-> FALSE, data |-> data]

\* the product with the indices of the receiver exchanged
Matrix_mul_self_swapped(self, rhs) ==
  LET M == self.M
      N == self.N
      P == rhs.N
      r == Matrix_mul_loop_self_swapped([p \in 1..P |-> [m \in 1..M |-> 0]],
                                        self.data, rhs.data, Triples(M, P, N), 1)
  IN IF r.ok THEN Returned(Matrix(M, P, r.data))
     ELSE Panicked(IndexOutOfBounds, None)

\* impl Mul<Matrix<T, N, P>> for Matrix<T, M, N>: mat is Matrix::default() of
\* type Matrix<T, M, P>, the loops run m over 0..M, p over 0..P, n over 0..N.
Matrix_mul(self, rhs) ==
  LET M == self.M
      N == self.N
      P == rhs.N
      r == Matrix_mul_loop([p \in 1..P |-> [m \in 1..M |-> 0]],
                           self.data, rhs.data, Triples(M, P, N), 1)
  IN IF r.ok THEN Returned(Matrix(M, P, r.data))
     ELSE Panicked(IndexOutOfBounds, None)

\* The comparison capability of the element type (trait Cmp of the numeric
\* module): the larger and the smaller of two elements.
maximum(a, b) == IF a >= b THEN a ELSE b

minimum(a, b) == IF a <= b THEN a ELSE b

\* The loop of clamp: self[[j, i]] = self[[j, i]].maximum(min[[j, i]])
\* .minimum(max[[j, i]]) for the pairs <<j, i>> of idx from position k on;
\* x[[j, i]] is x.data[j][i] and panics when it is out of bounds.
RECURSIVE ClampLoop(_, _, _, _, _)
ClampLoop(data, min, max, idx, k) ==
  IF k > Len(idx) THEN [ok |-> TRUE, data |-> data]
  ELSE LET j == idx[k][1]
           i == idx[k][2]
       IN IF InBounds(data, j, i) /\ InBounds(min, j, i) /\ InBounds(max, j, i)
          THEN ClampLoop(Put(data, j, i,
                             minimum(maximum(At(data, j, i), At(min, j, i)),
                                     At(max, j, i))),
                         min, max, idx, k + 1)
          ELSE [ok |-> FALSE, data |-> data]

\* Matrix::clamp: for j in 0..M { for i in 0..N { .. } } on the receiver
Matrix_clamp(self, min, max) ==
  LET r == ClampLoop(self.data, min.data, max.data, Pairs(self.M, self.N), 1)
  IN IF r.ok THEN Mutated(Matrix(self.M, self.N, r.data))
     ELSE Panicked(IndexOutOfBounds, Matrix(self.M, self.N, r.data))

\* Matrix::clamped: clamp on a copy, which is returned; the receiver is
\* borrowed and stays as it was, also when the copy's clamp panics.
Matrix_clamped(self, min, max) ==
  LET mat == Matrix_clamp(self, min, max)
  IN IF mat.status = "ok" THEN [status |-> "ok", ret |-> mat.post, post |-> self]
     ELSE Panicked(mat.status, self)

(***************************************************************************)
(* The inputs the calls are made with.                                     *)
(***************************************************************************)
\* Entry patterns of the dynamic containers: the entry of pattern f at column
\* c, row r (0-based), one of -1, 0, 1.
Fill(f, c, r) == ((f + c + 2 * r) % 3) - 1

Fills == 1..NumFills

\* sequences of at least lo and at most MaxDim column lengths, each lo..MaxDim
Shapes(lo) == UNION {[1..k -> lo..MaxDim] : k \in lo..MaxDim}

\* Vec<Vec<T>> arguments of DMatrix::new: rectangular and ragged, also without
\* columns and with empty columns
VecVecOf(f, lens) == [c \in 1..Len(lens) |-> [r \in 1..lens[c] |-> Fill(f, c - 1, r - 1)]]

VecVecInputs == {VecVecOf(f, lens) : f \in Fills, lens \in Shapes(0)}

\* Vec<T> arguments of DVector::new
VecInputs == {[r \in 1..len |-> Fill(f, 0, r - 1)] : f \in Fills, len \in 0..MaxDim}

\* the right operands of the binary operators of DMatrix
DMatrixInputs == {DMatrix_new(d).ret : d \in VecVecInputs}

\* the token a value is written as
TokenOf(v) == IF v < 0 THEN <<"-", Digits[1 - v]>> ELSE <<Digits[v + 1]>>

\* tokens that do not parse into T
BadTokens == {<<"x">>, <<>>}

\* the pieces joined with the separator between them
RECURSIVE Join(_, _)
Join(pieces, sep) ==
  IF Len(pieces) = 0 THEN <<>>
  ELSE IF Len(pieces) = 1 THEN pieces[1]
  ELSE pieces[1] \o <<sep>> \o Join(Tail(pieces), sep)

\* the text of a grid of tokens: columns separated by ";", tokens by " "
TextOf(grid) == Join([c \in 1..Len(grid) |-> Join(grid[c], " ")], ";")

\* the grid of pattern f and shape lens, written as tokens
GridOf(f, lens) ==
  [c \in 1..Len(lens) |-> [r \in 1..lens[c] |-> TokenOf(Fill(f, c - 1, r - 1))]]

\* the grids of valid tokens, and those with one token replaced by a bad one
GoodGrids == {GridOf(f, lens) : f \in Fills, lens \in Shapes(1)}

OneBad(grid) ==
  UNION {{[grid EXCEPT ![c] = [@ EXCEPT ![r] = bad]] :
            r \in DOMAIN grid[c], bad \in BadTokens} : c \in DOMAIN grid}

Grids == GoodGrids \cup UNION {OneBad(g) : g \in GoodGrids}

\* the texts of the tests and of the documentation: "4 3 2;2 2 -1", "1 2 3"
ExampleMatrixText == <<"4", " ", "3", " ", "2", ";", "2", " ", "2", " ", "-", "1">>

ExampleVectorText == <<"1", " ", "2", " ", "3">>

\* texts of matrices, and texts of vectors (one column, no ";")
MatrixTexts == {TextOf(g) : g \in Grids} \cup {ExampleMatrixText}

VectorTexts == {TextOf(g) : g \in {h \in Grids : Len(h) = 1}} \cup {ExampleVectorText}

\* Dimensions of the fixed matrices: every dimension determinant() has a
\* closed form for, and MaxAbove more.
FixedDims == 0..(MaxClosedForm + MaxAbove)

\* [[T; M]; N] arguments: every array over 0..MaxVal up to MaxClosedForm in
\* both dimensions, and the constant arrays above
ArrayInputs(M, N) ==
  IF M <= MaxClosedForm /\ N <= MaxClosedForm
  THEN [1..N -> [1..M -> 0..MaxVal]]
  ELSE {[n \in 1..N |-> [m \in 1..M |-> v]] : v \in 0..MaxVal}

\* scalar arguments of mul_assign and div_assign
Scalars == 0..(MaxVal + 1)

\* Receivers of clamp, clamped and the matrix product: among the matrices a
\* caller holds, the constant ones and the ones striped along the diagonals
Receivers(M, N) ==
  {[n \in 1..N |-> [m \in 1..M |-> v]] : v \in 0..MaxVal}
    \cup {[n \in 1..N |-> [m \in 1..M |-> (f + n + m) % (MaxVal + 1)]] : f \in 0..MaxVal}

\* Right operands of the matrix product: Matrix<T, N, P> for P up to MaxDim,
\* with the entry patterns of the dynamic containers (entries -1, 0 and 1)
MulOperands(N) ==
  {Matrix(N, P, [p \in 1..P |-> [n \in 1..N |-> Fill(f, p, n)]]) :
     P \in 0..MaxDim, f \in Fills}

\* min and max arguments of clamp and clamped: the constant matrices over
\* 0..MaxVal and one matrix whose entries differ from place to place
Ramp(M, N) == [n \in 1..N |-> [m \in 1..M |-> (n + m) % (MaxVal + 1)]]

ClampBounds(M, N) ==
  {Matrix(M, N, [n \in 1..N |-> [m \in 1..M |-> v]]) : v \in 0..MaxVal}
    \cup {Matrix(M, N, Ramp(M, N))}

\* The values a caller goes on with: the containers whose data is one of the
\* enumerated inputs (whatever their size fields say).  This caps the values
\* a sequence of calls runs through.
Holdable(v) ==
  CASE v.kind = "DMatrix" -> v.data \in VecVecInputs
    [] v.kind = "DVector" -> v.data \in VecInputs
    [] v.kind = "Matrix" -> v.data \in ArrayInputs(v.M, v.N)
    [] OTHER -> FALSE

(***************************************************************************)
(* The state machine.  A caller constructs a value, applies operations to  *)
(* the value it holds, and starts over.  cur is the value held: a call by  *)
(* value (add, sub, mul, the From conversions) consumes it and leaves its  *)
(* result, an assigning operator leaves the receiver as mutated, a call by *)
(* reference (determinant) leaves it alone.  call is the call that has     *)
(* just been made, NoCall between two calls.                               *)
(***************************************************************************)
CallOf(op, self, rhs, out) ==
  [op |-> op, self |-> self, rhs |-> rhs,
   status |-> out.status, ret |-> out.ret, post |-> out.post]

NoCall == CallOf("none", None, None, Returned(None))

Hold(v) == IF Holdable(v) THEN v ELSE None

Init ==
  /\ cur = None
  /\ call = NoCall

\* --- constructors and conversions from plain data
New_DVector ==
  /\ cur = None
  /\ call = NoCall
  /\ \E data \in VecInputs :
       /\ call' = CallOf("DVector::new", None, VecArg(data), DVector_new(data))
       /\ cur' = Hold(DVector_new(data).ret)

New_DMatrix ==
  /\ cur = None
  /\ call = NoCall
  /\ \E data \in VecVecInputs :
       /\ call' = CallOf("DMatrix::new", None, VecArg(data), DMatrix_new(data))
       /\ cur' = Hold(DMatrix_new(data).ret)

DefaultWithSize ==
  /\ cur = None
  /\ call = NoCall
  /\ \E rows \in 0..MaxDim, cols \in 0..MaxDim :
       /\ call' = CallOf("DMatrix::default_with_size", None, SizeArg(<<rows, cols>>),
                         DMatrix_default_with_size(<<rows, cols>>))
       /\ cur' = Hold(DMatrix_default_with_size(<<rows, cols>>).ret)

FromStr_DVector ==
  /\ cur = None
  /\ call = NoCall
  /\ \E text \in VectorTexts :
       /\ call' = CallOf("DVector::from(&str)", None, StrArg(text),
                         DVector_from_str(text))
       /\ cur' = Hold(DVector_from_str(text).ret)

FromString_DVector ==
  /\ cur = None
  /\ call = NoCall
  /\ \E text \in VectorTexts :
       /\ call' = CallOf("DVector::from(String)", None, StrArg(text),
                         DVector_from_String(text))
       /\ cur' = Hold(DVector_from_String(text).ret)

FromStr_DMatrix ==
  /\ cur = None
  /\ call = NoCall
  /\ \E text \in MatrixTexts :
       /\ call' = CallOf("DMatrix::from(&str)", None, StrArg(text),
                         DMatrix_from_str(text))
       /\ cur' = Hold(DMatrix_from_str(text).ret)

FromString_DMatrix ==
  /\ cur = None
  /\ call = NoCall
  /\ \E text \in MatrixTexts :
       /\ call' = CallOf("DMatrix::from(String)", None, StrArg(text),
                         DMatrix_from_String(text))
       /\ cur' = Hold(DMatrix_from_String(text).ret)

New_Matrix ==
  /\ cur = None
  /\ call = NoCall
  /\ \E M \in FixedDims, N \in FixedDims :
       \E data \in ArrayInputs(M, N) :
         /\ call' = CallOf("Matrix::new", None, VecArg(data), Matrix_new(M, N, data))
         /\ cur' = Hold(Matrix_new(M, N, data).ret)

Broadcast_Matrix ==
  /\ cur = None
  /\ call = NoCall
  /\ \E M \in FixedDims, N \in FixedDims, value \in 0..MaxVal :
       /\ call' = CallOf("Matrix::broadcast", None, ScalarArg(value),
                         Matrix_broadcast(M, N, value))
       /\ cur' = Hold(Matrix_broadcast(M, N, value).ret)

\* --- conversions of the value held
FromArray_DMatrix ==
  /\ call = NoCall
  /\ cur.kind = "Matrix"
  /\ call' = CallOf("DMatrix::from([[T; M]; N])", None, cur,
                    DMatrix_from_array(cur.M, cur.N, cur.data))
  /\ cur' = Hold(DMatrix_from_array(cur.M, cur.N, cur.data).ret)

FromDVector_DMatrix ==
  /\ call = NoCall
  /\ cur.kind = "DVector"
  /\ call' = CallOf("DMatrix::from(DVector)", None, cur, DMatrix_from_DVector(cur))
  /\ cur' = Hold(DMatrix_from_DVector(cur).ret)

FromDMatrix_DVector ==
  /\ call = NoCall
  /\ cur.kind = "DMatrix"
  /\ call' = CallOf("DVector::from(DMatrix)", None, cur, DVector_from_DMatrix(cur))
  /\ cur' = Hold(DVector_from_DMatrix(cur).ret)

\* --- operators of DMatrix, the value held being the receiver
Add ==
  /\ call = NoCall
  /\ cur.kind = "DMatrix"
  /\ \E rhs \in DMatrixInputs :
       /\ call' = CallOf("add", cur, rhs, DMatrix_add(cur, rhs))
       /\ cur' = Hold(DMatrix_add(cur, rhs).ret)

AddAssign ==
  /\ call = NoCall
  /\ cur.kind = "DMatrix"
  /\ \E rhs \in DMatrixInputs :
       /\ call' = CallOf("add_assign", cur, rhs, DMatrix_add_assign(cur, rhs))
       /\ cur' = Hold(DMatrix_add_assign(cur, rhs).post)

Sub ==
  /\ call = NoCall
  /\ cur.kind = "DMatrix"
  /\ \E rhs \in DMatrixInputs :
       /\ call' = CallOf("sub", cur, rhs, DMatrix_sub(cur, rhs))
       /\ cur' = Hold(DMatrix_sub(cur, rhs).ret)

SubAssign ==
  /\ call = NoCall
  /\ cur.kind = "DMatrix"
  /\ \E rhs \in DMatrixInputs :
       /\ call' = CallOf("sub_assign", cur, rhs, DMatrix_sub_assign(cur, rhs))
       /\ cur' = Hold(DMatrix_sub_assign(cur, rhs).post)

Mul ==
  /\ call = NoCall
  /\ cur.kind = "DMatrix"
  /\ \E rhs \in DMatrixInputs :
       /\ call' = CallOf("mul", cur, rhs, DMatrix_mul(cur, rhs))
       /\ cur' = Hold(DMatrix_mul(cur, rhs).ret)

\* --- operations of Matrix, the value held being the receiver
Determinant ==
  /\ call = NoCall
  /\ cur.kind = "Matrix"
  /\ cur.M = cur.N
  /\ call' = CallOf("determinant", cur, None, determinant(cur))
  /\ UNCHANGED cur

MulAssignScalar ==
  /\ call = NoCall
  /\ cur.kind = "Matrix"
  /\ \E rhs \in Scalars :
       /\ call' = CallOf("mul_assign", cur, ScalarArg(rhs), Matrix_mul_assign(cur, rhs))
       /\ cur' = Hold(Matrix_mul_assign(cur, rhs).post)

DivAssignScalar ==
  /\ call = NoCall
  /\ cur.kind = "Matrix"
  /\ \E rhs \in Scalars \ {0} :
       /\ call' = CallOf("div_assign", cur, ScalarArg(rhs), Matrix_div_assign(cur, rhs))
       /\ cur' = Hold(Matrix_div_assign(cur, rhs).post)

MulMatrix ==
  /\ call = NoCall
  /\ cur.kind = "Matrix"
  /\ cur.data \in Receivers(cur.M, cur.N)
  /\ \E rhs \in MulOperands(cur.N) :
       /\ call' = CallOf("Matrix::mul", cur, rhs, Matrix_mul(cur, rhs))
       /\ cur' = Hold(Matrix_mul(cur, rhs).ret)

Clamp ==
  /\ call = NoCall
  /\ cur.kind = "Matrix"
  /\ cur.data \in Receivers(cur.M, cur.N)
  /\ \E min \in ClampBounds(cur.M, cur.N), max \in ClampBounds(cur.M, cur.N) :
       /\ call' = CallOf("clamp", cur, BoundsArg(min, max), Matrix_clamp(cur, min, max))
       /\ cur' = Hold(Matrix_clamp(cur, min, max).post)

Clamped ==
  /\ call = NoCall
  /\ cur.kind = "Matrix"
  /\ cur.data \in Receivers(cur.M, cur.N)
  /\ \E min \in ClampBounds(cur.M, cur.N), max \in ClampBounds(cur.M, cur.N) :
       /\ call' = CallOf("clamped", cur, BoundsArg(min, max),
                         Matrix_clamped(cur, min, max))
       /\ cur' = Hold(Matrix_clamped(cur, min, max).post)

\* --- the call has returned (or panicked, and the caller has caught it)
Return ==
  /\ call # NoCall
  /\ call' = NoCall
  /\ UNCHANGED cur

\* --- the caller drops what it holds and starts over
Drop ==
  /\ call = NoCall
  /\ cur # None
  /\ cur' = None
  /\ UNCHANGED call

Next ==
  \/ New_DVector
  \/ New_DMatrix
  \/ DefaultWithSize
  \/ FromStr_DVector
  \/ FromString_DVector
  \/ FromStr_DMatrix
  \/ FromString_DMatrix
  \/ New_Matrix
  \/ Broadcast_Matrix
  \/ FromArray_DMatrix
  \/ FromDVector_DMatrix
  \/ FromDMatrix_DVector
  \/ Add
  \/ AddAssign
  \/ Sub
  \/ SubAssign
  \/ Mul
  \/ Determinant
  \/ MulAssignScalar
  \/ DivAssignScalar
  \/ MulMatrix
  \/ Clamp
  \/ Clamped
  \/ Return
  \/ Drop

Spec == Init /\ [][Next]_vars

(***************************************************************************)
(* Notions the claims are stated with.                                     *)
(***************************************************************************)
\* the size invariant of DMatrix: size.1 columns, each of size.0 entries
SizeInvariant(m) ==
  /\ m.size[2] = Len(m.data)
  /\ \A c \in DOMAIN m.data : Len(m.data[c]) = m.size[1]

\* every column has the length of the first
Rectangular(data) == \A c \in DOMAIN data : Len(data[c]) = Len(data[1])

\* the tokens of a text, column by column
TokenGrid(chars) ==
  LET cols == Split(chars, ";") IN [c \in 1..Len(cols) |-> Split(cols[c], " ")]

\* a text of columns of the same number of tokens, every token numeric
WellFormedText(chars) ==
  /\ Rectangular(TokenGrid(chars))
  /\ \A c \in DOMAIN TokenGrid(chars) :
       \A r \in DOMAIN TokenGrid(chars)[c] : ParseT(TokenGrid(chars)[c][r]).ok

IsCall(ops) == call.op \in ops

MatrixTextOps == {"DMatrix::from(&str)", "DMatrix::from(String)"}

VectorTextOps == {"DVector::from(&str)", "DVector::from(String)"}

\* sum over n in 1..k of selfData[n][m] * rhsData[p][n] (1-based)
RECURSIVE DotSum(_, _, _, _, _)
DotSum(selfData, rhsData, m, p, k) ==
  IF k = 0 THEN 0
  ELSE DotSum(selfData, rhsData, m, p, k - 1) + selfData[k][m] * rhsData[p][k]

(***************************************************************************)
(* C1.  Every DMatrix produced from rectangular inputs by the constructors,*)
(* conversions and operators satisfies the size invariant: size.1 is the   *)
(* number of columns of data and every column has size.0 entries.  Stated  *)
(* call by call: a call whose inputs are rectangular and whose DMatrix     *)
(* operands satisfy the invariant returns a DMatrix that satisfies it.     *)
(***************************************************************************)
C1_InputsRectangular ==
  CASE call.op = "DMatrix::new" -> Rectangular(call.rhs.data)
    [] call.op = "DMatrix::default_with_size" -> TRUE
    [] call.op = "DMatrix::from([[T; M]; N])" -> TRUE
    [] call.op = "DMatrix::from(DVector)" -> call.rhs.len = Len(call.rhs.data)
    [] call.op \in MatrixTextOps -> Rectangular(TokenGrid(call.rhs.chars))
    [] call.op \in {"add", "sub", "mul"} ->
         SizeInvariant(call.self) /\ SizeInvariant(call.rhs)
    [] OTHER -> FALSE

C1_SizeInvariantKept ==
  (C1_InputsRectangular /\ call.status = "ok" /\ call.ret.kind = "DMatrix")
    => SizeInvariant(call.ret)

(***************************************************************************)
(* C2.  add, sub, add_assign and sub_assign on operands whose size tuples  *)
(* differ fail at the assertion, before an element is touched: nothing is  *)
(* returned and the receiver of an assigning operator is as it was.  On    *)
(* operands of equal size they do not fail.                                *)
(***************************************************************************)
C2_SizeCheckedFirst ==
  IsCall({"add", "sub", "add_assign", "sub_assign"}) =>
    /\ call.self.size # call.rhs.size =>
         /\ call.status = AssertFailed
         /\ call.ret.kind = "None"
         /\ IsCall({"add_assign", "sub_assign"}) => call.post = call.self
    /\ call.self.size = call.rhs.size => call.status = "ok"

(***************************************************************************)
(* C3.  DMatrix multiplication is the matrix product: for A of size (r, k) *)
(* and B of size (k, c), r, k, c >= 1, A * B returns a matrix of size      *)
(* (r, c) whose entry at column p, row m is the sum over n of              *)
(* A.data[n][m] * B.data[p][n]; and it fails when the number of columns of *)
(* A differs from the number of rows of B.                                 *)
(***************************************************************************)
C3_MulIsMatrixProduct ==
  (IsCall({"mul"}) /\ SizeInvariant(call.self) /\ SizeInvariant(call.rhs)) =>
    LET r == call.self.size[1]
        k == call.self.size[2]
        c == call.rhs.size[2]
        all == {r, k, c, call.rhs.size[1]}
    IN (\A d \in all : d >= 1) =>
       /\ call.rhs.size[1] = k =>
            /\ call.status = "ok"
            /\ call.ret.size = <<r, c>>
            /\ Len(call.ret.data) = c
            /\ \A p \in 1..c :
                 /\ Len(call.ret.data[p]) = r
                 /\ \A m \in 1..r :
                      call.ret.data[p][m] = DotSum(call.self.data, call.rhs.data, m, p, k)
       /\ call.rhs.size[1] # k => call.status # "ok"

(***************************************************************************)
(* C4.  Round trip: for every DVector v of length >= 1, DVector::from of   *)
(* DMatrix::from(v) returns a DVector with the elements and the len of v.  *)
(***************************************************************************)
C4_RoundTrip ==
  \A data \in VecInputs :
    (/\ Len(data) >= 1
     /\ IsCall({"DVector::from(DMatrix)"})
     /\ call.rhs = DMatrix_from_DVector(DVector_new(data).ret).ret)
      => /\ call.status = "ok"
         /\ call.ret.data = data
         /\ call.ret.len = Len(data)

(***************************************************************************)
(* C5.  Parsing a text of C columns separated by ";", each of R numeric    *)
(* tokens separated by " ", into a DMatrix gives size (R, C) and           *)
(* data[c][r] the value of token r of column c; "4 3 2;2 2 -1" gives size  *)
(* (3, 2), data[0][0] = 4 and data[1][2] = -1.  Two matrices parsed from   *)
(* texts of the same shape are added without a failure.                    *)
(***************************************************************************)
\* the matrices parsed from the well-formed texts, each with the shape
\* <<R, C>> of its text
ParsedWithShape ==
  {<<Len(TokenGrid(t)[1]), Len(TokenGrid(t)), DMatrix_from_str(t).ret>> :
     t \in {u \in MatrixTexts : WellFormedText(u)}}

\* m has been parsed from a well-formed text of shape sh
ParsedFrom(m, sh) == <<sh[1], sh[2], m>> \in ParsedWithShape

TextShapes == (1..(MaxDim + 1)) \X (1..(MaxDim + 1))

C5_ParsedAsWritten ==
  /\ IsCall(MatrixTextOps) =>
       LET grid == TokenGrid(call.rhs.chars)
           valid == \A c \in DOMAIN grid : \A r \in DOMAIN grid[c] : ParseT(grid[c][r]).ok
       IN (Rectangular(grid) /\ valid) =>
            /\ call.status = "ok"
            /\ call.ret.kind = "DMatrix"
            /\ call.ret.size = <<Len(grid[1]), Len(grid)>>
            /\ Len(call.ret.data) = Len(grid)
            /\ \A c \in DOMAIN grid :
                 /\ Len(call.ret.data[c]) = Len(grid[c])
                 /\ \A r \in DOMAIN grid[c] : call.ret.data[c][r] = ParseT(grid[c][r]).v
  /\ (IsCall(MatrixTextOps) /\ call.rhs.chars = ExampleMatrixText) =>
       /\ call.ret.size = <<3, 2>>
       /\ At(call.ret.data, 0, 0) = 4
       /\ At(call.ret.data, 1, 2) = -1
  /\ IsCall({"add"}) =>
       \A sh \in TextShapes :
         (ParsedFrom(call.self, sh) /\ ParsedFrom(call.rhs, sh)) => call.status = "ok"

\* the text of the documentation has been parsed into a DMatrix
C5_Witness ==
  /\ IsCall({"DMatrix::from(&str)"})
  /\ call.rhs.chars = ExampleMatrixText
  /\ call.status = "ok"
  /\ call.ret.size = <<3, 2>>

\* two matrices parsed from texts of two columns of two tokens have been added
C5_AddReached ==
  /\ IsCall({"add"})
  /\ ParsedFrom(call.self, <<2, 2>>)
  /\ ParsedFrom(call.rhs, <<2, 2>>)
  /\ call.status = "ok"

(***************************************************************************)
(* C6.  The text constructors of DVector and DMatrix never replace a token *)
(* that does not parse by T's default value: when a token of the input is  *)
(* malformed, the construction does not return a container that holds the  *)
(* default value at the position of that token.                            *)
(***************************************************************************)
C6_NoSilentDefault ==
  /\ IsCall(MatrixTextOps) =>
       LET grid == TokenGrid(call.rhs.chars) IN
       \A c \in DOMAIN grid : \A r \in DOMAIN grid[c] :
         ~ParseT(grid[c][r]).ok =>
           ~(/\ call.status = "ok"
             /\ InBounds(call.ret.data, c - 1, r - 1)
             /\ call.ret.data[c][r] = 0)
  /\ IsCall(VectorTextOps) =>
       LET toks == Split(call.rhs.chars, " ") IN
       \A r \in DOMAIN toks :
         ~ParseT(toks[r]).ok =>
           ~(/\ call.status = "ok"
             /\ r \in DOMAIN call.ret.data
             /\ call.ret.data[r] = 0)

(***************************************************************************)
(* C7.  determinant() of a 2x2 matrix m is                                 *)
(* m[[0,0]] * m[[1,1]] - m[[1,0]] * m[[0,1]].                              *)
(***************************************************************************)
C7_Determinant2 ==
  (IsCall({"determinant"}) /\ call.self.M = 2) =>
    LET d == call.self.data IN
    /\ call.status = "ok"
    /\ call.ret.v = At(d, 0, 0) * At(d, 1, 1) - At(d, 1, 0) * At(d, 0, 1)

(***************************************************************************)
(* C8.  determinant() of a 3x3 matrix is the six-term Leibniz sum over its *)
(* entries, so that it is 0 for a matrix with two identical rows.          *)
(***************************************************************************)
Leibniz3(d) ==
    At(d, 0, 0) * At(d, 1, 1) * At(d, 2, 2)
  + At(d, 0, 1) * At(d, 1, 2) * At(d, 2, 0)
  + At(d, 0, 2) * At(d, 1, 0) * At(d, 2, 1)
  - At(d, 0, 2) * At(d, 1, 1) * At(d, 2, 0)
  - At(d, 0, 1) * At(d, 1, 0) * At(d, 2, 2)
  - At(d, 0, 0) * At(d, 1, 2) * At(d, 2, 1)

\* rows i and j of m (the entries m[[c, i]] and m[[c, j]] of every column c) agree
SameRows(d, i, j) == \A c \in 0..2 : At(d, c, i) = At(d, c, j)

C8_Determinant3 ==
  (IsCall({"determinant"}) /\ call.self.M = 3) =>
    LET d == call.self.data IN
    /\ call.status = "ok"
    /\ call.ret.v = Leibniz3(d)
    /\ (\E i, j \in 0..2 : i # j /\ SameRows(d, i, j)) => call.ret.v = 0

\* the determinant of a 3x3 matrix with two identical rows that are not zero,
\* and a third that differs, has been taken
C8_Witness ==
  /\ IsCall({"determinant"})
  /\ call.self.M = 3
  /\ call.status = "ok"
  /\ SameRows(call.self.data, 0, 2)
  /\ ~SameRows(call.self.data, 0, 1)
  /\ \A c \in 0..2 : At(call.self.data, c, 0) # 0
  /\ call.ret.v = 0

\* the determinant of a 3x3 matrix is not zero
C8_NonZeroReached ==
  /\ IsCall({"determinant"})
  /\ call.self.M = 3
  /\ call.status = "ok"
  /\ call.ret.v < 0

(***************************************************************************)
(* C9.  determinant() of a square matrix of dimension above 3 fails as     *)
(* unimplemented and returns no value; of dimension 0 it is T::one(), of   *)
(* dimension 1 the entry m[[0,0]].                                         *)
(***************************************************************************)
C9_DeterminantDims ==
  IsCall({"determinant"}) =>
    /\ call.self.M > 3 => call.status = Unimplemented /\ call.ret.kind = "None"
    /\ call.self.M = 0 => call.status = "ok" /\ call.ret.kind = "T" /\ call.ret.v = 1
    /\ call.self.M = 1 =>
         /\ call.status = "ok"
         /\ call.ret.kind = "T"
         /\ call.ret.v = At(call.self.data, 0, 0)

\* the determinant of a 4x4 matrix has been asked for
C9_Witness ==
  /\ IsCall({"determinant"})
  /\ call.self.M = 4
  /\ call.status = Unimplemented

(***************************************************************************)
(* C10.  On a Matrix of every shape M x N, mul_assign(s) completes and     *)
(* replaces every element e by e * s, and div_assign(s), s # 0, every      *)
(* element e by e / s.                                                     *)
(***************************************************************************)
C10_ScalarAssign ==
  IsCall({"mul_assign", "div_assign"}) =>
    LET old == call.self.data
        s == call.rhs.v
    IN /\ call.status = "ok"
       /\ call.post.kind = "Matrix"
       /\ call.post.data =
            [n \in 1..call.self.N |-> [m \in 1..call.self.M |->
               IF call.op = "mul_assign" THEN old[n][m] * s ELSE old[n][m] \div s]]

(***************************************************************************)
(* C11.  On a Matrix of every shape M x N, with min <= max elementwise,    *)
(* clamp(min, max) completes and sets the element e at every position to   *)
(* minimum(maximum(e, min there), max there): e itself when it is within    *)
(* the two, max there when it is above, min there when it is below;         *)
(* clamped(min, max) returns that matrix and leaves the receiver as it was. *)
(***************************************************************************)
ElementwiseLeq(min, max) ==
  \A n \in DOMAIN min.data : \A m \in DOMAIN min.data[n] :
    min.data[n][m] <= max.data[n][m]

ClampedElement(e, lo, hi) ==
  IF e < lo THEN lo ELSE IF e > hi THEN hi ELSE e

C11_Clamp ==
  (IsCall({"clamp", "clamped"}) /\ ElementwiseLeq(call.rhs.min, call.rhs.max)) =>
    LET old == call.self.data
        lo == call.rhs.min.data
        hi == call.rhs.max.data
        want == [n \in 1..call.self.N |-> [m \in 1..call.self.M |->
                   ClampedElement(old[n][m], lo[n][m], hi[n][m])]]
    IN /\ call.status = "ok"
       /\ call.post.kind = "Matrix"
       /\ IsCall({"clamp"}) => call.post.data = want
       /\ IsCall({"clamped"}) =>
            /\ call.ret.kind = "Matrix"
            /\ call.ret.data = want
            /\ call.post = call.self

(***************************************************************************)
(* C12.  The product of fixed matrices is associative: for A of type       *)
(* Matrix<T, M, N>, B of type Matrix<T, N, P> and C of type                *)
(* Matrix<T, P, Q> over integers, (A * B) * C and A * (B * C) complete and *)
(* are equal element by element; and A * B completes with                  *)
(* result[[p, m]] the sum over n of A[[n, m]] * B[[p, n]].                 *)
(***************************************************************************)
C12_MulAssociative ==
  IsCall({"Matrix::mul"}) =>
    LET A == call.self
        B == call.rhs
    IN /\ call.status = "ok"
       /\ call.ret = Matrix(A.M, B.N,
                            [p \in 1..B.N |-> [m \in 1..A.M |->
                               DotSum(A.data, B.data, m, p, A.N)]])
       /\ \A C \in MulOperands(B.N) :
            LET AB_C == Matrix_mul(call.ret, C)
                BC == Matrix_mul(B, C)
            IN /\ AB_C.status = "ok"
               /\ BC.status = "ok"
               /\ Matrix_mul(A, BC.ret).status = "ok"
               /\ AB_C.ret = Matrix_mul(A, BC.ret).ret

\* three matrices of two rows and two columns have been multiplied, B and C
\* do not commute, and the product of the three is not the zero matrix
C12_Witness ==
  /\ IsCall({"Matrix::mul"})
  /\ call.status = "ok"
  /\ call.self.M = 2 /\ call.self.N = 2 /\ call.rhs.N = 2
  /\ \E C \in MulOperands(2) :
       /\ C.N = 2
       /\ Matrix_mul(call.rhs, C).ret # Matrix_mul(C, call.rhs).ret
       /\ Matrix_mul(call.ret, C).ret = Matrix_mul(call.self, Matrix_mul(call.rhs, C).ret).ret
       /\ \E p \in 1..2, m \in 1..2 : Matrix_mul(call.ret, C).ret.data[p][m] # 0

====
